---- MODULE Spec2Model ----
(***************************************************************************)
(* hdrfix (src/src/main.rs): HDR screenshot to SDR conversion.             *)
(*                                                                         *)
(* The module holds one state machine per component of the program:        *)
(*   SpecLevel  Level::with_str on level strings                           *)
(*   SpecHist   Histogram::new / Histogram::percentile                     *)
(*   SpecLazy   Lazy::force / Lazy::level                                  *)
(*   SpecFill   PixelBuffer::fill over PixelBuffer::map, run by threads    *)
(*   SpecGamut  color_darken_oklab / color_desat_oklab and binary_search   *)
(*   SpecSearch binary_search under any comparator                         *)
(*   Spec       hdrfix, one conversion from the read to write_png          *)
(* Every specification leaves the variables of the other components at     *)
(* their idle values.                                                      *)
(*                                                                         *)
(* Numbers.  Decimal literals are kept exactly as (mantissa, number of     *)
(* fractional digits).  The index arithmetic of Histogram::percentile is   *)
(* done in IEEE binary32 as in the source: F32Round and F32DivTrunc round  *)
(* to 24 significant bits, ties to even.                                   *)
(***************************************************************************)
EXTENDS Integers, Sequences, FiniteSets, TLC

VARIABLES
    \* Level::with_str
    source,        \* the level string handed to with_str, a sequence of characters
    parsed,        \* the Result<Level> returned, or None before the call
    \* Histogram
    pixels,        \* per-pixel luminance of the buffer, run-length coded
    luma_vals,     \* Histogram.luma_vals (run-length coded), or None before new()
    target,        \* the argument of the last percentile() call, or None
    answer,        \* what the last percentile() call returned, or None
    \* Lazy<Histogram, F>
    value,         \* Lazy.value: None or Some(histogram)
    func,          \* Lazy.func: "Some" or "None"
    funcCalls,     \* how many times the wrapped function has run
    lazyPanicked,  \* a call panicked on the already-taken function
    calls,         \* the force()/level() calls made so far, with what they returned
    \* PixelBuffer::fill(source.map(func))
    dest,          \* the buffer being filled (self)
    mapped,        \* the buffer behind the source iterator
    mapFunc,       \* the name of the mapped function
    owner,         \* owner[i]: the worker thread that item i of the zip falls to
    done,          \* the items of the zip already processed
    writers,       \* writers[j]: the threads that have written byte j of dest.data
    fillState,     \* "idle", "running", "returned" or "panicked"
    \* color_darken_oklab / color_desat_oklab and their binary_search
    gamutIn,       \* c_in, the sample handed to the colour map
    gamutFunc,     \* the searched function: "darken_oklab" or "desat_oklab"
    searchMin,     \* min of the current binary_search invocation
    searchMax,     \* max of the current binary_search invocation
    evals,         \* evaluations of the searched function so far
    gamutOut,      \* the sample returned, or None
    gamutState,    \* "idle", "called", "searching" or "returned"
    \* hdrfix(input_filename, output_filename, args)
    inputFile,     \* the input file: its extension, its condition, its image
    args,          \* the command line arguments read so far, by name
    pc,            \* the stage hdrfix is at, "idle" outside Spec
    frame,         \* the locals of hdrfix, None until assigned
    histCalls,     \* Histogram::new calls: on the source, on tone_mapped
    outFile,       \* the file at the output path
    returned       \* what hdrfix returned: None while it runs

varsLevel == <<source, parsed>>
varsHist  == <<pixels, luma_vals, target, answer>>
varsLazy  == <<value, func, funcCalls, lazyPanicked, calls>>
varsFill  == <<dest, mapped, mapFunc, owner, done, writers, fillState>>
varsGamut == <<gamutIn, gamutFunc, searchMin, searchMax, evals, gamutOut, gamutState>>
varsMain == <<inputFile, args, pc, frame, histCalls, outFile, returned>>
vars == <<varsLevel, varsHist, varsLazy, varsFill, varsGamut, varsMain>>

\* Option<T>
None == [some |-> FALSE]
Some(v) == [some |-> TRUE, val |-> v]

RECURSIVE Pow2(_)
Pow2(k) == IF k = 0 THEN 1 ELSE 2 * Pow2(k - 1)

RECURSIVE Pow10(_)
Pow10(k) == IF k = 0 THEN 1 ELSE 10 * Pow10(k - 1)

(***************************************************************************)
(* Bounds of the model.                                                    *)
(***************************************************************************)
MaxStrLen == 4     \* longest level string drawn from the alphabet
MaxRuns == 2       \* runs of equal luminance in a histogram source buffer
MaxLuma == 3       \* distinct luminance values 1..MaxLuma
MaxCalls == 3      \* force()/level() calls made on one Lazy

IdleFill ==
    /\ dest = None /\ mapped = None /\ mapFunc = "" /\ owner = <<>>
    /\ done = {} /\ writers = <<>> /\ fillState = "idle"
IdleGamut ==
    /\ gamutIn = None /\ gamutFunc = "" /\ searchMin = 0 /\ searchMax = 0
    /\ evals = 0 /\ gamutOut = None /\ gamutState = "idle"
IdleMain ==
    /\ inputFile = None /\ args = <<>> /\ pc = "idle" /\ frame = None
    /\ histCalls = None /\ outFile = None /\ returned = None
IdleLevel == source = <<>> /\ parsed = None
IdleHist  == pixels = <<>> /\ luma_vals = None /\ target = None /\ answer = None
IdleLazy  == value = None /\ func = "None" /\ funcCalls = 0
             /\ lazyPanicked = FALSE /\ calls = <<>>

(***************************************************************************)
(* str::parse::<f32>() (main.rs:41-42).  A float literal is an optional    *)
(* sign followed by "inf", "NaN" or decimal digits with at most one ".",   *)
(* and at least one digit.  Exponents are outside the model's alphabet.    *)
(* The value of a finite literal is mant / 10^frac, trailing zeros         *)
(* dropped, so that equal numbers are equal records.                       *)
(***************************************************************************)
DigitChars == {"0", "1", "2", "3", "4", "5", "6", "7", "8", "9"}

DigitVal(c) ==
    CASE c = "0" -> 0 [] c = "1" -> 1 [] c = "2" -> 2 [] c = "3" -> 3
      [] c = "4" -> 4 [] c = "5" -> 5 [] c = "6" -> 6 [] c = "7" -> 7
      [] c = "8" -> 8 [] c = "9" -> 9

Finite(m, e) == [cls |-> "finite", mant |-> m, frac |-> e]
Infinite(sign) == [cls |-> "inf", mant |-> sign, frac |-> 0]
NotANumber == [cls |-> "nan", mant |-> 0, frac |-> 0]

RECURSIVE Normalise(_, _)
Normalise(m, e) ==
    IF m = 0 THEN Finite(0, 0)
    ELSE IF e > 0 /\ m % 10 = 0 THEN Normalise(m \div 10, e - 1)
    ELSE Finite(m, e)

RECURSIVE DigitsValue(_)
DigitsValue(s) ==
    IF s = <<>> THEN 0
    ELSE 10 * DigitsValue(SubSeq(s, 1, Len(s) - 1)) + DigitVal(s[Len(s)])

Dots(s) == {i \in 1..Len(s) : s[i] = "."}

IsDecimal(s) ==
    /\ \A i \in 1..Len(s) : s[i] \in DigitChars \cup {"."}
    /\ Cardinality(Dots(s)) <= 1
    /\ \E i \in 1..Len(s) : s[i] \in DigitChars

DecimalValue(s) ==
    LET digits == SelectSeq(s, LAMBDA c : c \in DigitChars)
        frac == IF Dots(s) = {} THEN 0
                ELSE Len(s) - (CHOOSE i \in Dots(s) : TRUE)
    IN  Normalise(DigitsValue(digits), frac)

Negate(v) == [v EXCEPT !.mant = 0 - v.mant]

ParseOk(v) == [ok |-> TRUE, val |-> v]
ParseErr == [ok |-> FALSE, val |-> NotANumber]

ParseF32(s) ==
    LET signed == Len(s) > 0 /\ s[1] \in {"+", "-"}
        body == IF signed THEN Tail(s) ELSE s
        neg == signed /\ s[1] = "-"
        magnitude ==
            IF body = <<"i", "n", "f">> THEN ParseOk(Infinite(1))
            ELSE IF body = <<"N", "a", "N">> THEN ParseOk(NotANumber)
            ELSE IF IsDecimal(body) THEN ParseOk(DecimalValue(body))
            ELSE ParseErr
    IN  IF magnitude.ok /\ neg THEN ParseOk(Negate(magnitude.val)) ELSE magnitude

(***************************************************************************)
(* Level (main.rs:32-45).                                                  *)
(***************************************************************************)
Scalar(v) == [tag |-> "Scalar", val |-> v]
Percentile(v) == [tag |-> "Percentile", val |-> v]
ParseFloatError == [tag |-> "ParseFloatError", val |-> NotANumber]

\* str::strip_suffix: the string without the suffix, when it ends with it.
StripSuffix(s, suffix) ==
    IF Len(s) >= Len(suffix)
       /\ SubSeq(s, Len(s) - Len(suffix) + 1, Len(s)) = suffix
    THEN [some |-> TRUE, rest |-> SubSeq(s, 1, Len(s) - Len(suffix))]
    ELSE [some |-> FALSE, rest |-> s]

\* A plausible slip: every trailing "%" is taken off.
RECURSIVE StripAllSuffix(_, _)
StripAllSuffix(s, suffix) ==
    IF Len(s) >= Len(suffix)
       /\ SubSeq(s, Len(s) - Len(suffix) + 1, Len(s)) = suffix
    THEN [some |-> TRUE,
          rest |-> StripAllSuffix(SubSeq(s, 1, Len(s) - Len(suffix)), suffix).rest]
    ELSE [some |-> FALSE, rest |-> s]

\* A plausible slip: "5%%" read as the percentile 5.
with_str_strip_all(src) ==
    LET stripped == StripAllSuffix(src, <<"%">>)
    IN  IF Len(stripped.rest) < Len(src)
        THEN LET val == ParseF32(stripped.rest)
             IN  IF val.ok THEN Percentile(val.val) ELSE ParseFloatError
        ELSE LET val == ParseF32(src)
             IN  IF val.ok THEN Scalar(val.val) ELSE ParseFloatError

with_str(src) ==
    LET stripped == StripSuffix(src, <<"%">>)
    IN  IF stripped.some
        THEN LET val == ParseF32(stripped.rest)
             IN  IF val.ok THEN Percentile(val.val) ELSE ParseFloatError
        ELSE LET val == ParseF32(src)
             IN  IF val.ok THEN Scalar(val.val) ELSE ParseFloatError

LevelChars == {"0", "2", "5", ".", "%", "-"}

RECURSIVE StringsUpTo(_)
StringsUpTo(n) ==
    IF n = 0 THEN {<<>>}
    ELSE LET shorter == StringsUpTo(n - 1)
         IN  shorter \cup {Append(s, c) : s \in shorter, c \in LevelChars}

LevelStrings ==
    StringsUpTo(MaxStrLen)
        \cup {<<"i", "n", "f">>, <<"i", "n", "f", "%">>, <<"N", "a", "N">>,
              <<"1", "0", "0", "0", "0">>, <<"1", "0", "0", "%">>, <<"a", "b", "c">>}

InitLevel == source \in LevelStrings /\ parsed = None /\ IdleHist /\ IdleLazy /\ IdleFill /\ IdleGamut /\ IdleMain

LevelWithStr ==
    /\ parsed = None
    /\ parsed' = Some(with_str(source))
    /\ UNCHANGED <<source, varsHist, varsLazy, varsFill, varsGamut, varsMain>>

NextLevel == LevelWithStr

SpecLevel == InitLevel /\ [][NextLevel]_vars

(***************************************************************************)
(* C10: with_str classifies a level string by its last character alone: a  *)
(* string ending in "%" gives Percentile of the number before the "%", any *)
(* other string gives Scalar of the whole string read as a number, and a   *)
(* string whose numeric part is no number gives the numeric-parse error.   *)
(* "50%" is Percentile(50.0) and "0.25" is Scalar(0.25).                   *)
(***************************************************************************)
C10_LevelBySuffix ==
    parsed.some =>
        LET endsPct == Len(source) > 0 /\ source[Len(source)] = "%"
            numeric == IF endsPct THEN SubSeq(source, 1, Len(source) - 1) ELSE source
            num == ParseF32(numeric)
            r == parsed.val
        IN  /\ ~num.ok => r = ParseFloatError
            /\ num.ok /\ endsPct => r = Percentile(num.val)
            /\ num.ok /\ ~endsPct => r = Scalar(num.val)
            /\ source = <<"5", "0", "%">> => r = Percentile(Finite(50, 0))
            /\ source = <<"0", ".", "2", "5">> => r = Scalar(Finite(25, 2))
            /\ source = <<"5", "0", "%", "%">> => r = ParseFloatError

C10_Witness ==
    /\ parsed.some
    /\ source = <<"5", "0", "%">>
    /\ parsed.val.tag = "Percentile"

(***************************************************************************)
(* IEEE binary32 arithmetic on the non-negative integers that the index    *)
(* computation of Histogram::percentile meets (main.rs:567).               *)
(***************************************************************************)
(* f32 samples.  A finite f32 is held in fixed point, in units of 2^-16    *)
(* (One is 1.0), below 2^30 in magnitude; NaN and the infinities are       *)
(* values of their own and follow the IEEE rules.  Products and quotients  *)
(* are truncated to the unit: the model's rounding error is at most 2^-16  *)
(* per operation (an f32 near 1.0 has 2^-24).                              *)
(***************************************************************************)
One == Pow2(16)
Inf == Pow2(30)
NegInf == 0 - Pow2(30)
NaN == Pow2(30) + 1

IsNaN(a) == a = NaN
IsInf(a) == a = Inf \/ a = NegInf
IsFinite(a) == ~IsNaN(a) /\ ~IsInf(a)

Abs(a) == IF a < 0 THEN 0 - a ELSE a
Sign(a) == IF a < 0 THEN 0 - 1 ELSE IF a > 0 THEN 1 ELSE 0

\* a < b, a <= b, a > b on f32: false when either is NaN
FLt(a, b) == ~IsNaN(a) /\ ~IsNaN(b) /\ a < b
FLe(a, b) == ~IsNaN(a) /\ ~IsNaN(b) /\ a <= b
FGt(a, b) == ~IsNaN(a) /\ ~IsNaN(b) /\ a > b

FNeg(a) == IF IsNaN(a) THEN NaN ELSE 0 - a

FAdd(a, b) ==
    IF IsNaN(a) \/ IsNaN(b) THEN NaN
    ELSE IF IsInf(a) THEN (IF IsInf(b) /\ a # b THEN NaN ELSE a)
    ELSE IF IsInf(b) THEN b
    ELSE a + b

FSub(a, b) == FAdd(a, FNeg(b))

\* floor(a * b / 2^16) for 0 <= a, b, by 8-bit halves (32-bit integers)
MulRaw(a, b) ==
    LET ah == a \div 256
        al == a % 256
        bh == b \div 256
        bl == b % 256
    IN  ah * bh + (ah * bl + al * bh + (al * bl) \div 256) \div 256

FMul(a, b) ==
    IF IsNaN(a) \/ IsNaN(b) THEN NaN
    ELSE IF IsInf(a) \/ IsInf(b)
    THEN (IF a = 0 \/ b = 0 THEN NaN
          ELSE IF Sign(a) * Sign(b) > 0 THEN Inf ELSE NegInf)
    ELSE Sign(a) * Sign(b) * MulRaw(Abs(a), Abs(b))

\* bits more binary digits of rem / b, appended to acc (0 <= rem < b)
RECURSIVE DivBits(_, _, _, _)
DivBits(acc, rem, b, bits) ==
    IF bits = 0 THEN acc
    ELSE IF 2 * rem >= b THEN DivBits(2 * acc + 1, 2 * rem - b, b, bits - 1)
    ELSE DivBits(2 * acc, 2 * rem, b, bits - 1)

\* floor(a * 2^16 / b) for a >= 0, b > 0
DivRaw(a, b) == DivBits(a \div b, a % b, b, 16)

FDiv(a, b) ==
    IF IsNaN(a) \/ IsNaN(b) THEN NaN
    ELSE IF IsInf(a)
    THEN (IF IsInf(b) THEN NaN
          ELSE IF Sign(a) * (IF b < 0 THEN 0 - 1 ELSE 1) > 0 THEN Inf ELSE NegInf)
    ELSE IF IsInf(b) THEN 0
    ELSE IF b = 0
    THEN (IF a = 0 THEN NaN ELSE IF a > 0 THEN Inf ELSE NegInf)
    ELSE Sign(a) * Sign(b) * DivRaw(Abs(a), Abs(b))

\* f32::max and f32::min: the other operand when one is NaN
FMax(a, b) == IF IsNaN(a) THEN b ELSE IF IsNaN(b) THEN a ELSE IF a > b THEN a ELSE b
FMin(a, b) == IF IsNaN(a) THEN b ELSE IF IsNaN(b) THEN a ELSE IF a < b THEN a ELSE b

\* The f32 of a parsed literal (of a few digits)
F32OfLiteral(v) ==
    IF v.cls = "nan" THEN NaN
    ELSE IF v.cls = "inf" THEN (IF v.mant > 0 THEN Inf ELSE NegInf)
    ELSE Sign(v.mant) * ((Abs(v.mant) * One) \div Pow10(v.frac))

(***************************************************************************)
(* glam::Vec3, component-wise                                              *)
(***************************************************************************)
Vec3(x, y, z) == [x |-> x, y |-> y, z |-> z]
Splat(v) == Vec3(v, v, v)
VZero == Splat(0)
VOne == Splat(One)
VScale(v, k) == Vec3(FMul(v.x, k), FMul(v.y, k), FMul(v.z, k))
VMax(a, b) == Vec3(FMax(a.x, b.x), FMax(a.y, b.y), FMax(a.z, b.z))
VMin(a, b) == Vec3(FMin(a.x, b.x), FMin(a.y, b.y), FMin(a.z, b.z))
max_element(v) == FMax(v.x, FMax(v.y, v.z))

\* clip (main.rs:407-409)
clip(input) == VMin(VMax(input, VZero), VOne)

\* color_clip (main.rs:411-414)
color_clip(input) == clip(input)

(***************************************************************************)
F32Mantissa == 24   \* significant bits of an f32

\* The least j with n / 2^j below 2^24: the f32 holding n has ulp 2^j.
RECURSIVE UlpShift(_)
UlpShift(n) == IF n < Pow2(F32Mantissa) THEN 0 ELSE 1 + UlpShift(n \div 2)

\* n as f32 (usize as f32, or the rounding of an exact integer result):
\* round to nearest, ties to even.
F32Round(n) ==
    LET ulp == Pow2(UlpShift(n))
        q == n \div ulp
        r == n % ulp
    IN  IF 2 * r < ulp THEN q * ulp
        ELSE IF 2 * r > ulp THEN (q + 1) * ulp
        ELSE IF q % 2 = 0 THEN q * ulp ELSE (q + 1) * ulp

\* The least k with q * 2^k at least 2^23: the f32 nearest q + fraction has ulp 2^-k.
RECURSIVE FracBits(_)
FracBits(q) == IF q >= Pow2(F32Mantissa - 1) THEN 0 ELSE 1 + FracBits(2 * q)

\* (a / d) as usize, for f32 values a >= 0 and d > 1 holding integers: the f32
\* quotient, rounded to nearest (ties to even), then truncated.
F32DivTrunc(a, d) ==
    LET q == a \div d
        r == a % d
    IN  IF q = 0 THEN 0
        ELSE IF q >= Pow2(F32Mantissa - 1)
        THEN \* ulp >= 1: the quotient is rounded to a multiple of ulp
             LET ulp == Pow2(UlpShift(q))
                 m == q \div ulp
                 low == (q % ulp) * d + r      \* what lies above m * ulp, times d
             IN  IF 2 * low < ulp * d THEN m * ulp
                 ELSE IF 2 * low > ulp * d THEN (m + 1) * ulp
                 ELSE IF m % 2 = 0 THEN m * ulp ELSE (m + 1) * ulp
        ELSE \* ulp = 2^-k < 1: the integer part grows only when the quotient
             \* rounds up to q + 1, which is a multiple of 2 ulp (ties go there)
             IF (d - r) * Pow2(FracBits(q) + 1) <= d THEN q + 1 ELSE q

(***************************************************************************)
(* Histogram (main.rs:546-570).  A buffer is given by the luminance of its *)
(* pixels, luma_scrgb of each decoded pixel, as a sequence of runs         *)
(* [val, cnt]: cnt consecutive pixels of luminance val.  luma_vals is kept *)
(* in the same run-length form.  Luminances here are numbers (no NaN).     *)
(***************************************************************************)
RECURSIVE RunsLen(_)
RunsLen(runs) == IF runs = <<>> THEN 0 ELSE runs[1].cnt + RunsLen(Tail(runs))

\* runs[index], zero-based, for index < RunsLen(runs)
RECURSIVE RunsAt(_, _)
RunsAt(runs, index) ==
    IF index < runs[1].cnt THEN runs[1].val
    ELSE RunsAt(Tail(runs), index - runs[1].cnt)

\* The comparator of par_sort_unstable_by (main.rs:554-559): partial_cmp,
\* with Equal where the values do not compare.
Compare(a, b) ==
    IF IsNaN(a) \/ IsNaN(b) THEN "Equal"
    ELSE IF a < b THEN "Less" ELSE IF a > b THEN "Greater" ELSE "Equal"

\* A plausible slip: the comparator's arguments swapped (descending order).
CompareSwapped(a, b) ==
    IF IsNaN(a) \/ IsNaN(b) THEN "Equal"
    ELSE IF b < a THEN "Less" ELSE IF b > a THEN "Greater" ELSE "Equal"

\* The sort: each run moves left past the runs the comparator puts after it.
RECURSIVE InsertRun(_, _)
InsertRun(sorted, run) ==
    IF sorted = <<>> \/ Compare(run.val, sorted[Len(sorted)].val) # "Less"
    THEN Append(sorted, run)
    ELSE Append(InsertRun(SubSeq(sorted, 1, Len(sorted) - 1), run), sorted[Len(sorted)])

RECURSIVE SortRuns(_)
SortRuns(runs) ==
    IF runs = <<>> THEN <<>>
    ELSE InsertRun(SortRuns(SubSeq(runs, 1, Len(runs) - 1)), runs[Len(runs)])

\* Histogram::new
HistogramNew(lumas) == [luma_vals |-> SortRuns(lumas)]

\* (max_index as f32 * target / 100.0) as usize (main.rs:567), for a target f32
\* that is NaN, infinite or holds an integer.  The cast saturates: NaN and
\* negative values give 0, +inf gives usize::MAX.  0.0 * inf is NaN.
UsizeMax == 2147483647  \* stands for usize::MAX: above every vector length
TargetIndex(max_index, t) ==
    IF t.cls = "nan" THEN 0
    ELSE IF t.cls = "inf"
    THEN IF max_index = 0 \/ t.mant < 0 THEN 0 ELSE UsizeMax
    ELSE IF t.mant < 0 THEN 0
    ELSE F32DivTrunc(F32Round(F32Round(max_index) * t.mant), 100)

\* Histogram::percentile: the value, or the panic of the index being out of
\* bounds (len() - 1 of an empty vector wraps or panics: a panic either way).
HistogramPercentile(h, t) ==
    LET len == RunsLen(h.luma_vals)
        target_index == TargetIndex(len - 1, t)
    IN  IF len = 0 \/ target_index >= len
        THEN [panic |-> TRUE, index |-> 0, val |-> 0]
        ELSE [panic |-> FALSE, index |-> target_index,
              val |-> RunsAt(h.luma_vals, target_index)]

\* The buffers and percentiles drawn.  A 3840 x 2160 screenshot has
\* Pixels4K pixels; a long run stands for all of them but one.
Pixels4K == 3840 * 2160
RunLengths == {1, 2, Pixels4K - 1}
Targets == {Finite(p, 0) : p \in {0, 10, 50, 90, 100}}

RECURSIVE RunSeqs(_)
RunSeqs(n) ==
    IF n = 0 THEN {<<>>}
    ELSE LET shorter == RunSeqs(n - 1)
         IN  shorter \cup {Append(s, [val |-> v, cnt |-> c]) :
                              s \in shorter, v \in 1..MaxLuma, c \in RunLengths}

Buffers == RunSeqs(MaxRuns) \ {<<>>}

InitHist ==
    /\ pixels \in Buffers
    /\ luma_vals = None /\ target = None /\ answer = None
    /\ IdleLevel /\ IdleLazy /\ IdleFill /\ IdleGamut /\ IdleMain

HistNew ==
    /\ ~luma_vals.some
    /\ luma_vals' = Some(HistogramNew(pixels))
    /\ UNCHANGED <<pixels, target, answer, varsLevel, varsLazy, varsFill, varsGamut, varsMain>>

HistPercentile ==
    /\ luma_vals.some
    /\ ~target.some
    /\ \E percent \in Targets :
          /\ target' = Some(percent)
          /\ answer' = Some(HistogramPercentile(luma_vals.val, percent))
    /\ UNCHANGED <<pixels, luma_vals, varsLevel, varsLazy, varsFill, varsGamut, varsMain>>

NextHist == HistNew \/ HistPercentile

SpecHist == InitHist /\ [][NextHist]_vars

\* How many pixels of the buffer have a luminance below v, or at most v.
RECURSIVE CountBelow(_, _)
CountBelow(runs, v) ==
    IF runs = <<>> THEN 0
    ELSE (IF runs[1].val < v THEN runs[1].cnt ELSE 0) + CountBelow(Tail(runs), v)

RECURSIVE CountAtMost(_, _)
CountAtMost(runs, v) ==
    IF runs = <<>> THEN 0
    ELSE (IF runs[1].val <= v THEN runs[1].cnt ELSE 0) + CountAtMost(Tail(runs), v)

\* The element at a zero-based index of the buffer's luminances in ascending order.
OrderStatistic(runs, index) ==
    CHOOSE v \in {runs[i].val : i \in 1..Len(runs)} :
        CountBelow(runs, v) <= index /\ index < CountAtMost(runs, v)

(***************************************************************************)
(* C7: for a non-empty buffer of n pixels and p in [0,100], percentile(p)  *)
(* returns the element at index floor((n-1)*p/100) of the buffer's         *)
(* luminances in ascending order; so it is one of the buffer's             *)
(* luminances, and percentile(0) <= percentile(50) <= percentile(100).     *)
(***************************************************************************)
C7_PercentileIsOrderStatistic ==
    /\ answer.some /\ target.val.cls = "finite" /\ target.val.mant \in 0..100 =>
          LET n == RunsLen(pixels)
              index == ((n - 1) * target.val.mant) \div 100
          IN  /\ ~answer.val.panic
              /\ answer.val.val = OrderStatistic(pixels, index)
              /\ \E i \in 1..Len(pixels) : pixels[i].val = answer.val.val
    /\ luma_vals.some =>
          LET p0 == HistogramPercentile(luma_vals.val, Finite(0, 0))
              p50 == HistogramPercentile(luma_vals.val, Finite(50, 0))
              p100 == HistogramPercentile(luma_vals.val, Finite(100, 0))
          IN  /\ ~p0.panic /\ ~p50.panic /\ ~p100.panic
              /\ p0.val <= p50.val /\ p50.val <= p100.val

(***************************************************************************)
(* Lazy<Histogram, F> (main.rs:606-635).  The wrapped function is the      *)
(* closure of hdrfix that builds the histogram of a buffer (main.rs:       *)
(* 707-709); the buffer it captures is pixels.                             *)
(***************************************************************************)
\* Lazy::new
LazyNew == [value |-> None, func |-> "Some"]

\* A plausible slip: force() without the is_none() test runs the function on
\* every call, and unwraps the taken function on the second.
ForceAlways(lazy, built) ==
    IF lazy.func = "None"
    THEN [value |-> lazy.value, func |-> "None", ran |-> 0, panic |-> TRUE]
    ELSE [value |-> Some(built), func |-> "None", ran |-> 1, panic |-> FALSE]

\* Lazy::force.  built is what the wrapped function returns when it runs;
\* ran counts its invocations in this call; panic: unwrap() of a taken func.
Force(lazy, built) ==
    IF ~lazy.value.some
    THEN IF lazy.func = "None"
         THEN [value |-> lazy.value, func |-> "None", ran |-> 0, panic |-> TRUE]
         ELSE [value |-> Some(built), func |-> "None", ran |-> 1, panic |-> FALSE]
    ELSE [value |-> lazy.value, func |-> lazy.func, ran |-> 0, panic |-> FALSE]

\* A plausible slip: level() forces the histogram for a scalar level too.
LazyLevelEager(lazy, built, lvl) ==
    LET forced == Force(lazy, built)
    IN  [value |-> forced.value, func |-> forced.func, ran |-> forced.ran,
         panic |-> forced.panic,
         ret |-> IF forced.panic THEN [panic |-> TRUE, index |-> 0, val |-> 0]
                 ELSE IF lvl.tag = "Scalar" THEN [panic |-> FALSE, index |-> 0, val |-> lvl.val]
                 ELSE HistogramPercentile(forced.value.val, lvl.val)]

\* Lazy<Histogram,F>::level: the lazy after the call, and the f32 returned
\* (ret.panic when force() or percentile() panicked).
LazyLevel(lazy, built, lvl) ==
    IF lvl.tag = "Scalar"
    THEN [value |-> lazy.value, func |-> lazy.func, ran |-> 0, panic |-> FALSE,
          ret |-> [panic |-> FALSE, index |-> 0, val |-> lvl.val]]
    ELSE LET forced == Force(lazy, built)
         IN  [value |-> forced.value, func |-> forced.func, ran |-> forced.ran,
              panic |-> forced.panic,
              ret |-> IF forced.panic THEN [panic |-> TRUE, index |-> 0, val |-> 0]
                      ELSE HistogramPercentile(forced.value.val, lvl.val)]

LazyBuffers == {b \in Buffers : \A i \in 1..Len(b) : b[i].cnt <= 2}
LazyLevels == {Scalar(Finite(1, 0)), Percentile(Finite(0, 0)), Percentile(Finite(100, 0))}

InitLazy ==
    /\ pixels \in LazyBuffers
    /\ value = LazyNew.value /\ func = LazyNew.func
    /\ funcCalls = 0 /\ lazyPanicked = FALSE /\ calls = <<>>
    /\ luma_vals = None /\ target = None /\ answer = None
    /\ IdleLevel /\ IdleFill /\ IdleGamut /\ IdleMain

LazyForce ==
    /\ Len(calls) < MaxCalls
    /\ ~lazyPanicked
    /\ LET r == Force([value |-> value, func |-> func], HistogramNew(pixels))
       IN  /\ value' = r.value
           /\ func' = r.func
           /\ funcCalls' = funcCalls + r.ran
           /\ lazyPanicked' = r.panic
           /\ calls' = Append(calls, [op |-> "force", ran |-> r.ran, ret |-> r.value])
    /\ UNCHANGED <<pixels, luma_vals, target, answer, varsLevel, varsFill, varsGamut, varsMain>>

LazyLevelCall ==
    /\ Len(calls) < MaxCalls
    /\ ~lazyPanicked
    /\ \E lvl \in LazyLevels :
          LET r == LazyLevel([value |-> value, func |-> func], HistogramNew(pixels), lvl)
          IN  /\ value' = r.value
              /\ func' = r.func
              /\ funcCalls' = funcCalls + r.ran
              /\ lazyPanicked' = r.panic
              /\ calls' = Append(calls, [op |-> lvl.tag, ran |-> r.ran, ret |-> r.value])
    /\ UNCHANGED <<pixels, luma_vals, target, answer, varsLevel, varsFill, varsGamut, varsMain>>

NextLazy == LazyForce \/ LazyLevelCall

SpecLazy == InitLazy /\ [][NextLazy]_vars

(***************************************************************************)
(* C3: over every sequence of force()/level() calls on a Lazy the wrapped  *)
(* function runs at most once: the first forcing call runs it and stores   *)
(* the value, every later call returns the stored value without running it *)
(* again, and no call panics on the already-taken function.                *)
(***************************************************************************)
Forcing(call) == call.op \in {"force", "Percentile"}

C3_BuiltAtMostOnce ==
    /\ funcCalls <= 1
    /\ ~lazyPanicked
    /\ funcCalls = Cardinality({i \in 1..Len(calls) : calls[i].ran = 1})
    /\ \A i \in 1..Len(calls) :
          /\ calls[i].ran = 1 <=> (Forcing(calls[i]) /\ \A j \in 1..(i - 1) : ~Forcing(calls[j]))
          /\ Forcing(calls[i]) => calls[i].ret = Some(HistogramNew(pixels))
          /\ Forcing(calls[i]) => value = calls[i].ret
    /\ value.some <=> funcCalls = 1

C3_Witness ==
    /\ Len(calls) >= 3
    /\ Forcing(calls[2]) /\ Forcing(calls[3])
    /\ funcCalls = 1

(***************************************************************************)
(* Pixel codecs (main.rs:144-189).  A byte store is a sequence of bytes    *)
(* 0..255.  The four bytes of an f32 are those of its fixed-point value in *)
(* two's complement, least significant first (the zero bytes are 0.0, as   *)
(* in IEEE).                                                               *)
(***************************************************************************)
F32Bytes(v) ==
    <<v % 256, (v \div 256) % 256, (v \div 65536) % 256, (v \div Pow2(24)) % 256>>

F32OfBytes(b) ==
    b[1] + 256 * b[2] + 65536 * b[3]
        + Pow2(24) * (IF b[4] >= 128 THEN b[4] - 256 ELSE b[4])

Panic == [panic |-> TRUE]
Done(v) == [panic |-> FALSE, val |-> v]

\* pq_to_linear (main.rs:285-296) of the channel byte / 255, for the bytes the
\* model draws.  With v^(1/m2) = 1 at v = 1.0 the quotient is
\* (1 - c1) / (c2 - c3) = 1; at byte 128 it is 0.0094075 (617 units).
PqOfByte(byte) ==
    CASE byte = 0 -> 0
      [] byte = 128 -> 617
      [] byte = 255 -> One

pq_to_linear(data) == Vec3(PqOfByte(data[1]), PqOfByte(data[2]), PqOfByte(data[3]))

REC2100_MAX == 10000   \* main.rs:503
SDR_WHITE == 80        \* main.rs:504

\* floor(|coeff| * v / 10000), signed: a matrix coefficient given in 1/10000
MulCoeff(coeff, v) ==
    LET c == Abs(coeff)
        a == Abs(v)
    IN  Sign(coeff) * Sign(v) * (c * (a \div 10000) + (c * (a % 10000)) \div 10000)

\* rec2100_to_scrgb (main.rs:298-306); from_cols_array takes the columns
rec2100_to_scrgb(val) ==
    LET scale == REC2100_MAX \div SDR_WHITE
        v == Vec3(val.x * scale, val.y * scale, val.z * scale)
    IN  Vec3(MulCoeff(16605, v.x) + MulCoeff(0 - 5876, v.y) + MulCoeff(0 - 728, v.z),
             MulCoeff(0 - 1246, v.x) + MulCoeff(11329, v.y) + MulCoeff(0 - 83, v.z),
             MulCoeff(0 - 182, v.x) + MulCoeff(0 - 1006, v.y) + MulCoeff(11187, v.z))

\* read_srgb_rgb24 (main.rs:144-146)
read_srgb_rgb24(data) == Panic

\* read_rec2100_rgb24 (main.rs:158-163)
read_rec2100_rgb24(data) == Done(rec2100_to_scrgb(pq_to_linear(data)))

\* read_scrgb_rgb128float (main.rs:169-177): the first three f32 of the pixel
read_scrgb_rgb128float(data) ==
    Done(Vec3(F32OfBytes(SubSeq(data, 1, 4)),
              F32OfBytes(SubSeq(data, 5, 8)),
              F32OfBytes(SubSeq(data, 9, 12))))

\* write_scrgb_rgb128float (main.rs:179-189): the last four bytes are left
write_scrgb_rgb128float(data, rgb) ==
    Done(F32Bytes(rgb.x) \o F32Bytes(rgb.y) \o F32Bytes(rgb.z) \o SubSeq(data, 13, Len(data)))

\* write_rec2100_rgb24 (main.rs:165-167)
write_rec2100_rgb24(data, rgb) == Panic

\* linear_to_srgb then clip, * 255.0 and "as u8" (main.rs:495-501, 150-153),
\* one channel.  At or below 0.0031308 (205 units) the byte is that of
\* 12.92 * val.  Above, it is that of (val * 1.055)^(1/2.4) - 0.055, which
\* grows with val: SrgbSteps[k] is the least val, in units, whose byte is k
\* or more (1.0 gives 246; 255 needs 1.0778 and more).
SrgbSteps ==
    <<
       206, 206, 206, 206, 206, 206, 206, 206, 206, 215,
       237, 260, 285, 311, 338, 367, 396, 428, 460, 495,
       530, 567, 606, 646, 687, 730, 775, 821, 868, 918,
       968, 1021, 1075, 1130, 1188, 1247, 1307, 1370, 1434, 1499,
       1567, 1636, 1707, 1780, 1854, 1930, 2008, 2088, 2170, 2254,
       2339, 2426, 2515, 2606, 2699, 2794, 2891, 2989, 3090, 3192,
       3297, 3403, 3512, 3622, 3734, 3849, 3965, 4084, 4204, 4327,
       4451, 4578, 4707, 4838, 4971, 5106, 5243, 5382, 5523, 5667,
       5813, 5961, 6111, 6263, 6417, 6574, 6733, 6894, 7057, 7223,
       7390, 7560, 7733, 7907, 8084, 8263, 8444, 8628, 8814, 9002,
       9193, 9386, 9581, 9779, 9979, 10181, 10386, 10593, 10803, 11015,
       11229, 11446, 11665, 11887, 12111, 12337, 12566, 12797, 13031, 13268,
       13506, 13748, 13992, 14238, 14487, 14738, 14992, 15248, 15507, 15769,
       16033, 16299, 16568, 16840, 17115, 17391, 17671, 17953, 18238, 18525,
       18815, 19108, 19403, 19701, 20001, 20305, 20610, 20919, 21230, 21544,
       21861, 22180, 22502, 22826, 23154, 23484, 23817, 24152, 24491, 24832,
       25176, 25522, 25872, 26224, 26579, 26936, 27297, 27660, 28026, 28395,
       28767, 29141, 29519, 29899, 30282, 30668, 31057, 31448, 31843, 32240,
       32640, 33043, 33449, 33858, 34270, 34685, 35102, 35523, 35946, 36373,
       36802, 37234, 37670, 38108, 38549, 38993, 39440, 39890, 40343, 40799,
       41258, 41720, 42185, 42653, 43124, 43598, 44075, 44555, 45039, 45525,
       46014, 46506, 47002, 47500, 48001, 48506, 49014, 49524, 50038, 50555,
       51075, 51598, 52124, 52654, 53186, 53722, 54261, 54802, 55347, 55896,
       56447, 57001, 57559, 58120, 58684, 59251, 59821, 60395, 60971, 61551,
       62135, 62721, 63310, 63903, 64499, 65098, 65701, 66307, 66916, 67528,
       68143, 68762, 69384, 70009, 70638
    >>

SrgbByte(val) ==
    IF IsNaN(val) THEN 0
    ELSE IF val <= 205
    THEN (IF val <= 0 THEN 0 ELSE (val * 32946) \div 655360)
    ELSE Cardinality({k \in 1..255 : SrgbSteps[k] <= val})

\* write_srgb_rgb24 (main.rs:148-156)
write_srgb_rgb24(data, val) == Done(<<SrgbByte(val.x), SrgbByte(val.y), SrgbByte(val.z)>>)

(***************************************************************************)
(* PixelBuffer (main.rs:57-142).  The two function pointers are kept by    *)
(* name.                                                                   *)
(***************************************************************************)
SDR8bit == "SDR8bit"
HDR8bit == "HDR8bit"
HDRFloat32 == "HDRFloat32"

BytesPerPixel(format) == IF format = HDRFloat32 THEN 16 ELSE 3

\* A plausible slip: the readers of the two 8-bit formats taken for each other.
ReadFuncOfSwapped(format) ==
    CASE format = SDR8bit -> "read_rec2100_rgb24"
      [] format = HDR8bit -> "read_srgb_rgb24"
      [] format = HDRFloat32 -> "read_scrgb_rgb128float"

ReadFuncOf(format) ==
    CASE format = SDR8bit -> "read_srgb_rgb24"
      [] format = HDR8bit -> "read_rec2100_rgb24"
      [] format = HDRFloat32 -> "read_scrgb_rgb128float"

WriteFuncOf(format) ==
    CASE format = SDR8bit -> "write_srgb_rgb24"
      [] format = HDR8bit -> "write_rec2100_rgb24"
      [] format = HDRFloat32 -> "write_scrgb_rgb128float"

CallRead(read_rgb_func, data) ==
    CASE read_rgb_func = "read_srgb_rgb24" -> read_srgb_rgb24(data)
      [] read_rgb_func = "read_rec2100_rgb24" -> read_rec2100_rgb24(data)
      [] read_rgb_func = "read_scrgb_rgb128float" -> read_scrgb_rgb128float(data)

CallWrite(write_rgb_func, data, rgb) ==
    CASE write_rgb_func = "write_srgb_rgb24" -> write_srgb_rgb24(data, rgb)
      [] write_rgb_func = "write_rec2100_rgb24" -> write_rec2100_rgb24(data, rgb)
      [] write_rgb_func = "write_scrgb_rgb128float" -> write_scrgb_rgb128float(data, rgb)

Zeros(n) == [i \in 1..n |-> 0]

\* PixelBuffer::new
PixelBufferNew(width, height, format) ==
    [width |-> width, height |-> height,
     bytes_per_pixel |-> BytesPerPixel(format),
     data |-> Zeros(width * BytesPerPixel(format) * height),
     read_rgb_func |-> ReadFuncOf(format),
     write_rgb_func |-> WriteFuncOf(format)]

\* A plausible slip: every buffer chunked by the 3 bytes of an 8-bit pixel.
ChunkFirstRgb24(bytes_per_pixel, i) == (i - 1) * 3 + 1

\* par_chunks / par_chunks_mut (main.rs:115-121): chunk i, counted from 1,
\* is the bytes ChunkFirst .. ChunkLast of the store.
ChunkFirst(bytes_per_pixel, i) == (i - 1) * bytes_per_pixel + 1
ChunkLast(len, bytes_per_pixel, i) ==
    IF ChunkFirst(bytes_per_pixel, i) + bytes_per_pixel - 1 < len
    THEN ChunkFirst(bytes_per_pixel, i) + bytes_per_pixel - 1
    ELSE len
ChunkCount(len, bytes_per_pixel) == (len + bytes_per_pixel - 1) \div bytes_per_pixel
Chunk(data, bytes_per_pixel, i) ==
    SubSeq(data, ChunkFirst(bytes_per_pixel, i), ChunkLast(Len(data), bytes_per_pixel, i))

\* the store with chunk i replaced
WithChunk(data, bytes_per_pixel, i, bytes) ==
    [j \in 1..Len(data) |->
        IF j >= ChunkFirst(bytes_per_pixel, i)
           /\ j < ChunkFirst(bytes_per_pixel, i) + Len(bytes)
        THEN bytes[j - ChunkFirst(bytes_per_pixel, i) + 1]
        ELSE data[j]]

\* par_iter_rgb (main.rs:123-126): item i of the iterator
PixelAt(buffer, i) ==
    CallRead(buffer.read_rgb_func, Chunk(buffer.data, buffer.bytes_per_pixel, i))

PixelCount(buffer) == ChunkCount(Len(buffer.data), buffer.bytes_per_pixel)

(***************************************************************************)
(* PixelBuffer::map and PixelBuffer::fill (main.rs:128-141).  fill zips    *)
(* the chunks of self.data with the items of the source iterator and hands *)
(* the pairs to the thread pool; the zip of two indexed iterators has the  *)
(* length of the shorter one.  The split of the items among the threads    *)
(* is the pool's choice: owner is any assignment.  One step is one thread  *)
(* processing one of its items (read_rgb_func, the mapped function,        *)
(* write_rgb_func on the chunk).                                           *)
(***************************************************************************)
MaxPixels == 2     \* pixels of a buffer handed to fill
MaxThreads == 2    \* threads of the pool

Threads == 1..MaxThreads

\* 2.0_f32.powf(stops), for whole stops
Exp2(stops) ==
    IF IsNaN(stops) THEN NaN
    ELSE IF stops = Inf THEN Inf
    ELSE IF stops = NegInf THEN 0
    ELSE LET k == stops \div One
         IN  IF k >= 0 THEN Pow2(k) * One ELSE One \div Pow2(0 - k)

\* apply_exposure (main.rs:506-510) on a Vec3
apply_exposure(val, stops) == VScale(val, Exp2(stops))

\* tonemap_linear (main.rs:325-327)
tonemap_linear(c_in, options) == c_in

MapFuncs == {"tonemap_linear", "color_clip", "apply_exposure"}

CallMap(f, rgb) ==
    CASE f = "tonemap_linear" -> tonemap_linear(rgb, <<>>)
      [] f = "color_clip" -> color_clip(rgb)
      [] f = "apply_exposure" -> apply_exposure(rgb, One)

Min(a, b) == IF a < b THEN a ELSE b

\* the number of pairs the zip yields
ZipLen(buffer, src) == Min(PixelCount(buffer), PixelCount(src))

\* the closure of fill on pair i: Panic when a codec panics
FillChunk(buffer, src, f, i) ==
    LET rgb == PixelAt(src, i)
    IN  IF rgb.panic THEN Panic
        ELSE CallWrite(buffer.write_rgb_func,
                       Chunk(buffer.data, buffer.bytes_per_pixel, i),
                       CallMap(f, rgb.val))

Rgb24Pixels == {<<0, 0, 0>>, <<255, 128, 0>>, <<255, 255, 255>>}
FloatPixel(r, g, b) == F32Bytes(r) \o F32Bytes(g) \o F32Bytes(b) \o F32Bytes(One)
FloatPixels ==
    {FloatPixel(0, 0, 0), FloatPixel(One \div 2, One, 2 * One),
     FloatPixel(0 - One \div 4, One \div 4, 3 * One)}
PixelsOf(format) == IF format = HDRFloat32 THEN FloatPixels ELSE Rgb24Pixels

RECURSIVE Concat(_)
Concat(seqs) == IF seqs = <<>> THEN <<>> ELSE Head(seqs) \o Concat(Tail(seqs))

Formats == {SDR8bit, HDR8bit, HDRFloat32}

\* the buffers a reader can have produced: width x 1 pixels of the format
SourceBuffers ==
    {[PixelBufferNew(w, 1, format) EXCEPT !.data = Concat(px)] :
        <<w, format, px>> \in
            {t \in (1..MaxPixels) \X Formats \X UNION {[1..n -> FloatPixels \cup Rgb24Pixels] : n \in 1..MaxPixels} :
                /\ Len(t[3]) = t[1]
                /\ \A i \in 1..t[1] : t[3][i] \in PixelsOf(t[2])}}

InitFill ==
    /\ mapped \in SourceBuffers
    /\ \E w \in 1..MaxPixels, format \in Formats : dest = PixelBufferNew(w, 1, format)
    /\ mapFunc \in MapFuncs
    /\ owner \in [1..ZipLen(dest, mapped) -> Threads]
    /\ done = {}
    /\ writers = [j \in 1..Len(dest.data) |-> {}]
    /\ fillState = "running"
    /\ IdleLevel /\ IdleHist /\ IdleLazy /\ IdleGamut /\ IdleMain

\* a thread processes one of its pairs
FillItem(thread) ==
    /\ fillState = "running"
    /\ \E i \in (1..ZipLen(dest, mapped)) \ done :
          /\ owner[i] = thread
          /\ LET wr == FillChunk(dest, mapped, mapFunc, i)
             IN  /\ ~wr.panic
                 /\ dest' = [dest EXCEPT
                        !.data = WithChunk(dest.data, dest.bytes_per_pixel, i, wr.val)]
                 /\ writers' = [j \in 1..Len(dest.data) |->
                        IF j >= ChunkFirst(dest.bytes_per_pixel, i)
                           /\ j <= ChunkLast(Len(dest.data), dest.bytes_per_pixel, i)
                        THEN writers[j] \cup {thread} ELSE writers[j]]
                 /\ done' = done \cup {i}
    /\ UNCHANGED <<mapped, mapFunc, owner, fillState, varsLevel, varsHist, varsLazy, varsGamut, varsMain>>

\* a codec panics in a thread, and the pool passes the panic on to fill's caller
FillPanic(thread) ==
    /\ fillState = "running"
    /\ \E i \in (1..ZipLen(dest, mapped)) \ done :
          /\ owner[i] = thread
          /\ FillChunk(dest, mapped, mapFunc, i).panic
    /\ fillState' = "panicked"
    /\ UNCHANGED <<dest, mapped, mapFunc, owner, done, writers, varsLevel, varsHist, varsLazy, varsGamut, varsMain>>

\* for_each returns when every pair has been processed
FillReturn ==
    /\ fillState = "running"
    /\ done = 1..ZipLen(dest, mapped)
    /\ fillState' = "returned"
    /\ UNCHANGED <<dest, mapped, mapFunc, owner, done, writers, varsLevel, varsHist, varsLazy, varsGamut, varsMain>>

NextFill == (\E thread \in Threads : FillItem(thread) \/ FillPanic(thread)) \/ FillReturn

SpecFill == InitFill /\ [][NextFill]_vars

\* C5: fill does not complete when the source sequence has more or fewer
\* samples than the buffer has pixels (it panics instead).
C5_FillPanicsOnLengthMismatch ==
    PixelCount(mapped) # PixelCount(dest) => fillState # "returned"

\* pixel i of a buffer, by byte offsets
PixelBytes(buffer, i) ==
    SubSeq(buffer.data, (i - 1) * buffer.bytes_per_pixel + 1, i * buffer.bytes_per_pixel)

\* what pixel i of dest must hold after the pass
Expected(i) ==
    CallWrite(dest.write_rgb_func, Zeros(dest.bytes_per_pixel),
              CallMap(mapFunc, CallRead(mapped.read_rgb_func, PixelBytes(mapped, i)).val)).val

\* C6: a byte of dest is written only by the thread that owns its pixel, so
\* by one thread at most; and when fill has returned on buffers of equal
\* pixel count, pixel i of dest is the encoding of the mapped function's
\* value on the decoding of pixel i of the source, for every i.
C6_IndexCorrespondence ==
    /\ fillState # "idle" =>
          \A j \in 1..Len(dest.data) :
              /\ writers[j] \subseteq {owner[i] : i \in {(j - 1) \div dest.bytes_per_pixel + 1} \cap DOMAIN owner}
              /\ Cardinality(writers[j]) <= 1
    /\ (fillState = "returned" /\ PixelCount(mapped) = PixelCount(dest)) =>
          \A i \in 1..PixelCount(dest) : PixelBytes(dest, i) = Expected(i)

\* two threads have filled a two-pixel buffer from a two-pixel source
C6_Witness ==
    /\ fillState = "returned"
    /\ PixelCount(mapped) = 2 /\ PixelCount(dest) = 2
    /\ owner[1] # owner[2]
    /\ dest.data # Zeros(Len(dest.data))

(***************************************************************************)
(* Oklab (the oklab crate's linear_srgb_to_oklab and oklab_to_linear_srgb, *)
(* called at main.rs:572-586).  The matrices are those of the Oklab        *)
(* definition, their coefficients rounded to the unit 2^-16 so that every  *)
(* row keeps its sum; the cube root is the largest value whose cube does   *)
(* not exceed the argument.                                                *)
(***************************************************************************)
Oklab(l, a, b) == [l |-> l, a |-> a, b |-> b]

Cube(y) == MulRaw(MulRaw(y, y), y)

\* the largest y in lo..hi-1 with Cube(y) <= x, given Cube(lo) <= x < Cube(hi)
RECURSIVE CbrtSearch(_, _, _)
CbrtSearch(x, lo, hi) ==
    IF hi - lo <= 1 THEN lo
    ELSE LET mid == (lo + hi) \div 2
         IN  IF Cube(mid) <= x THEN CbrtSearch(x, mid, hi) ELSE CbrtSearch(x, lo, mid)

\* f32::cbrt
Cbrt(a) ==
    IF ~IsFinite(a) THEN a
    ELSE Sign(a) * CbrtSearch(Abs(a), 0, 26 * One)

\* x * x * x
FCube(a) == FMul(FMul(a, a), a)

\* k1 * x + k2 * y + k3 * z, the coefficients in units of 2^-16
Dot3(k1, x, k2, y, k3, z) == FAdd(FAdd(FMul(k1, x), FMul(k2, y)), FMul(k3, z))

\* linear_srgb_to_oklab
OklabOfLms(l_, m_, s_) ==
    Oklab(Dot3(13792, l_, 52011, m_, 0 - 267, s_),
          Dot3(129630, l_, 0 - 159160, m_, 29530, s_),
          Dot3(1698, l_, 51300, m_, 0 - 52998, s_))

linear_srgb_to_oklab(c) ==
    OklabOfLms(Cbrt(Dot3(27015, c.x, 35149, c.y, 3372, c.z)),
               Cbrt(Dot3(13887, c.x, 44610, c.y, 7039, c.z)),
               Cbrt(Dot3(5787, c.x, 18463, c.y, 41286, c.z)))

\* oklab_to_linear_srgb
RgbOfLms(l, m, s) ==
    Vec3(Dot3(267173, l, 0 - 216774, m, 15137, s),
         Dot3(0 - 83128, l, 171033, m, 0 - 22369, s),
         Dot3(0 - 275, l, 0 - 46099, m, 111910, s))

oklab_to_linear_srgb(c) ==
    RgbOfLms(FCube(Dot3(One, c.l, 25974, c.a, 14143, c.b)),
             FCube(Dot3(One, c.l, 0 - 6918, c.a, 0 - 4185, c.b)),
             FCube(Dot3(One, c.l, 0 - 5864, c.a, 0 - 84639, c.b)))

\* scrgb_to_oklab (main.rs:580-582)
scrgb_to_oklab(c) == linear_srgb_to_oklab(c)

\* oklab_to_scrgb (main.rs:584-586)
oklab_to_scrgb(c) == oklab_to_linear_srgb(c)

\* luma_oklab (main.rs:312-323)
luma_oklab(val) == oklab_to_scrgb(Oklab(val.l, 0, 0)).x

\* luma_scrgb (main.rs:308-310)
luma_scrgb(val) == luma_oklab(scrgb_to_oklab(val))

\* oklab_l_for_luma (main.rs:366-370)
oklab_l_for_luma(luma) == linear_srgb_to_oklab(Vec3(luma, luma, luma)).l

\* scale_oklab (main.rs:392-405)
\* Oklab { l, a: oklab_in.a * ratio, b: oklab_in.b * ratio }
ScaleBy(oklab_in, l, ratio) == Oklab(l, FMul(oklab_in.a, ratio), FMul(oklab_in.b, ratio))

ScaleTo(oklab_in, gray_l) == ScaleBy(oklab_in, gray_l, FDiv(gray_l, oklab_in.l))

scale_oklab(oklab_in, luma_out) ==
    IF oklab_in.l = 0 THEN oklab_in
    ELSE ScaleTo(oklab_in, oklab_l_for_luma(luma_out))

\* darken_oklab (main.rs:416-424)
darken_oklab(c_in, brightness) ==
    oklab_to_scrgb(Oklab(FMul(c_in.l, brightness), FMul(c_in.a, brightness),
                         FMul(c_in.b, brightness)))

\* desat_oklab (main.rs:426-434)
desat_oklab(c_in, saturation) ==
    oklab_to_scrgb(Oklab(c_in.l, FMul(c_in.a, saturation), FMul(c_in.b, saturation)))

\* A plausible slip: Equal only for no difference at all.
close_enough_exact(a, b) ==
    IF IsFinite(FSub(a, b)) /\ FSub(a, b) = 0 THEN "Equal"
    ELSE IF FLt(FSub(a, b), 0) THEN "Less"
    ELSE "Greater"

\* close_enough (main.rs:436-447), EPSILON = 0.001
close_enough(a, b) ==
    LET delta == FSub(a, b)
    IN  IF IsFinite(delta) /\ Abs(delta) < One /\ 1000 * Abs(delta) < One THEN "Equal"
        ELSE IF FLt(delta, 0) THEN "Less"
        ELSE "Greater"

(***************************************************************************)
(* binary_search (main.rs:449-465) and the two colour maps built on it     *)
(* (main.rs:467-493).  SearchStep is one invocation of binary_search up to *)
(* its return or its recursive call.                                       *)
(***************************************************************************)
CallSearched(func_, input, at) ==
    CASE func_ = "darken_oklab" -> darken_oklab(input, at)
      [] func_ = "desat_oklab" -> desat_oklab(input, at)

\* the comparator closure of both colour maps (main.rs:472-474, 486-488)
Comparator(rgb) == close_enough(max_element(rgb), One)

\* what the invocation does with the result at mid: bracket is
\* close_enough(min, max), order is comparator(result)
SearchDecide(min, max, mid, result, bracket, order) ==
    IF bracket = "Equal" \/ order = "Equal"
    THEN [ret |-> TRUE, result |-> result, min |-> min, max |-> max]
    ELSE IF order = "Less"
    THEN [ret |-> FALSE, result |-> result, min |-> mid, max |-> max]
    ELSE [ret |-> FALSE, result |-> result, min |-> min, max |-> mid]

SearchWith(min, max, mid, result) ==
    SearchDecide(min, max, mid, result, close_enough(min, max), Comparator(result))

SearchAt(input, min, max, func_, mid) ==
    SearchWith(min, max, mid, CallSearched(func_, input, mid))

SearchStep(input, min, max, func_) ==
    SearchAt(input, min, max, func_, FDiv(FAdd(min, max), 2 * One))

RECURSIVE binary_search(_, _, _, _)
SearchOn(input, func_, step) ==
    IF step.ret THEN step.result
    ELSE binary_search(input, step.min, step.max, func_)

binary_search(input, min, max, func_) ==
    SearchOn(input, func_, SearchStep(input, min, max, func_))

\* color_darken_oklab (main.rs:467-479)
color_darken_oklab(c_in) ==
    IF FGt(max_element(c_in), One)
    THEN clip(binary_search(scrgb_to_oklab(c_in), 0, One, "darken_oklab"))
    ELSE c_in

\* color_desat_oklab (main.rs:481-493)
color_desat_oklab(c_in) ==
    IF FGt(max_element(c_in), One)
    THEN clip(binary_search(scrgb_to_oklab(c_in), 0, One, "desat_oklab"))
    ELSE c_in

GamutChannels == {0, One \div 2, One, 2 * One, 125 * One}
GamutSamples == {Vec3(r, g, b) : r \in GamutChannels, g \in GamutChannels, b \in GamutChannels}

InitGamut ==
    /\ gamutIn \in GamutSamples
    /\ gamutFunc \in {"darken_oklab", "desat_oklab"}
    /\ searchMin = 0 /\ searchMax = 0 /\ evals = 0
    /\ gamutOut = None
    /\ gamutState = "called"
    /\ IdleLevel /\ IdleHist /\ IdleLazy /\ IdleFill /\ IdleMain

\* max <= 1.0: the sample is returned as it is
GamutInRange ==
    /\ gamutState = "called"
    /\ ~FGt(max_element(gamutIn), One)
    /\ gamutOut' = Some(gamutIn)
    /\ gamutState' = "returned"
    /\ UNCHANGED <<gamutIn, gamutFunc, searchMin, searchMax, evals,
                   varsLevel, varsHist, varsLazy, varsFill, varsMain>>

\* max > 1.0: binary_search(c_in_oklab, 0.0, 1.0, ...) is called
GamutSearch ==
    /\ gamutState = "called"
    /\ FGt(max_element(gamutIn), One)
    /\ searchMin' = 0 /\ searchMax' = One
    /\ gamutState' = "searching"
    /\ UNCHANGED <<gamutIn, gamutFunc, evals, gamutOut,
                   varsLevel, varsHist, varsLazy, varsFill, varsMain>>

\* one invocation of binary_search that calls itself on a half of the bracket
SearchRecurse ==
    /\ gamutState = "searching"
    /\ LET step == SearchStep(scrgb_to_oklab(gamutIn), searchMin, searchMax, gamutFunc)
       IN  /\ ~step.ret
           /\ searchMin' = step.min
           /\ searchMax' = step.max
    /\ evals' = evals + 1
    /\ UNCHANGED <<gamutIn, gamutFunc, gamutOut, gamutState,
                   varsLevel, varsHist, varsLazy, varsFill, varsMain>>

\* the invocation that returns its result, which the colour map clips
SearchReturn ==
    /\ gamutState = "searching"
    /\ LET step == SearchStep(scrgb_to_oklab(gamutIn), searchMin, searchMax, gamutFunc)
       IN  /\ step.ret
           /\ gamutOut' = Some(clip(step.result))
    /\ evals' = evals + 1
    /\ gamutState' = "returned"
    /\ UNCHANGED <<gamutIn, gamutFunc, searchMin, searchMax,
                   varsLevel, varsHist, varsLazy, varsFill, varsMain>>

NextGamut == GamutInRange \/ GamutSearch \/ SearchRecurse \/ SearchReturn

SpecGamut == InitGamut /\ [][NextGamut]_vars

\* C8: a sample whose largest channel exceeds 1.0 comes back from the colour
\* map with its largest channel within 0.001 of 1.0; any other sample comes
\* back unchanged.
C8_GamutWithinEpsilon ==
    gamutState = "returned" =>
        IF FGt(max_element(gamutIn), One)
        THEN close_enough(max_element(gamutOut.val), One) = "Equal"
        ELSE gamutOut.val = gamutIn

(***************************************************************************)
(* binary_search (main.rs:449-465) on its own, for any comparator: what    *)
(* the comparator answers for a result is chosen freely at every           *)
(* invocation, which covers every func as well, since the result of func   *)
(* goes to the comparator and to the caller only.  Every invocation either *)
(* returns or calls itself, so the search ends when the number of          *)
(* evaluations is bounded.                                                 *)
(***************************************************************************)
Orderings == {"Less", "Equal", "Greater"}

SearchSamples == {Vec3(2 * One, One, 0), Vec3(0, 0, 125 * One)}

SearchWithAny(min, max, mid, result, order) ==
    SearchDecide(min, max, mid, result, close_enough(min, max), order)

\* the midpoint of the bracket and the result of func there (main.rs:455-456)
SearchMid == FDiv(FAdd(searchMin, searchMax), 2 * One)
SearchResult == CallSearched(gamutFunc, gamutIn, SearchMid)

\* gamutIn is the input argument of binary_search here, an Oklab colour
InitSearch ==
    /\ gamutIn \in {scrgb_to_oklab(c_in) : c_in \in SearchSamples}
    /\ gamutFunc \in {"darken_oklab", "desat_oklab"}
    /\ searchMin = 0 /\ searchMax = 0 /\ evals = 0
    /\ gamutOut = None
    /\ gamutState = "called"
    /\ IdleLevel /\ IdleHist /\ IdleLazy /\ IdleFill /\ IdleMain

\* binary_search(input, 0.0, 1.0, func, comparator) is called
SearchCall ==
    /\ gamutState = "called"
    /\ searchMin' = 0 /\ searchMax' = One
    /\ gamutState' = "searching"
    /\ UNCHANGED <<gamutIn, gamutFunc, evals, gamutOut,
                   varsLevel, varsHist, varsLazy, varsFill, varsMain>>

\* an invocation that calls itself on a half of the bracket
SearchRecurseAny ==
    /\ gamutState = "searching"
    /\ LET mid == SearchMid
           result == SearchResult
       IN  \E order \in Orderings :
              LET step == SearchWithAny(searchMin, searchMax, mid, result, order)
              IN  /\ ~step.ret
                  /\ searchMin' = step.min
                  /\ searchMax' = step.max
    /\ evals' = evals + 1
    /\ UNCHANGED <<gamutIn, gamutFunc, gamutOut, gamutState,
                   varsLevel, varsHist, varsLazy, varsFill, varsMain>>

\* an invocation that returns the result at its midpoint
SearchReturnAny ==
    /\ gamutState = "searching"
    /\ LET mid == SearchMid
           result == SearchResult
       IN  \E order \in Orderings :
              LET step == SearchWithAny(searchMin, searchMax, mid, result, order)
              IN  /\ step.ret
                  /\ gamutOut' = Some(step.result)
    /\ evals' = evals + 1
    /\ gamutState' = "returned"
    /\ UNCHANGED <<gamutIn, gamutFunc, searchMin, searchMax,
                   varsLevel, varsHist, varsLazy, varsFill, varsMain>>

NextSearch == SearchCall \/ SearchRecurseAny \/ SearchReturnAny

SpecSearch == InitSearch /\ [][NextSearch]_vars

\* the bracket after k halvings of [0, 1]
HalvedBy(k) == One \div Pow2(k)

\* C12: binary_search on the bracket [0, 1] returns, whatever the comparator
\* answers: every recursive call halves the bracket, an invocation recurses
\* only while the bracket is 0.001 wide or wider, so func is evaluated 11
\* times at most, and the value returned is the result at the last midpoint.
C12_SearchTerminates ==
    /\ gamutState = "searching" =>
          /\ evals <= 10
          /\ FSub(searchMax, searchMin) = HalvedBy(evals)
          /\ FLe(0, searchMin) /\ FLe(searchMax, One)
    /\ gamutState = "returned" =>
          /\ evals <= 11
          /\ gamutOut.val = SearchResult

\* a search that was never told Equal has returned after 11 evaluations
C12_Witness ==
    /\ gamutState = "returned"
    /\ evals = 11
    /\ FSub(searchMax, searchMin) = HalvedBy(10)

(***************************************************************************)
(* The per-pixel operators of the conversion (main.rs:325-364, 372-390,    *)
(* 512-519, 588-604).                                                      *)
(***************************************************************************)
VAdd(a, b) == Vec3(FAdd(a.x, b.x), FAdd(a.y, b.y), FAdd(a.z, b.z))
VMul(a, b) == Vec3(FMul(a.x, b.x), FMul(a.y, b.y), FMul(a.z, b.z))
VDiv(a, b) == Vec3(FDiv(a.x, b.x), FDiv(a.y, b.y), FDiv(a.z, b.z))

\* the largest y in lo..hi-1 with y * y <= x, given lo * lo <= x < hi * hi
RECURSIVE SqrtSearch(_, _, _)
SqrtSearch(x, lo, hi) ==
    IF hi - lo <= 1 THEN lo
    ELSE LET mid == (lo + hi) \div 2
         IN  IF MulRaw(mid, mid) <= x THEN SqrtSearch(x, mid, hi) ELSE SqrtSearch(x, lo, mid)

\* f32::powf, for the exponents the model's arguments lead to: 0, 1/2, 1, 2,
\* 3, the infinities and NaN.
Powf(x, e) ==
    IF e = 0 \/ x = One THEN One
    ELSE IF IsNaN(x) \/ IsNaN(e) THEN NaN
    ELSE CASE e = Inf ->
                (IF Abs(x) < One THEN 0 ELSE IF x = 0 - One THEN One ELSE Inf)
           [] e = NegInf ->
                (IF Abs(x) < One THEN Inf ELSE IF x = 0 - One THEN One ELSE 0)
           [] e = One -> x
           [] e = 2 * One -> FMul(x, x)
           [] e = 3 * One -> FCube(x)
           [] e = One \div 2 ->
                (IF IsInf(x) THEN Inf
                 ELSE IF x < 0 THEN NaN
                 ELSE SqrtSearch(x, 0, 128 * One + 1))

\* apply_gamma (main.rs:598-604)
ApplyGammaOklab(oklab_in, gamma) ==
    oklab_to_scrgb(scale_oklab(oklab_in, Powf(luma_oklab(oklab_in), gamma)))

apply_gamma(c_in, gamma) == ApplyGammaOklab(scrgb_to_oklab(c_in), gamma)

\* apply_levels (main.rs:588-596)
ApplyLevelsOklab(oklab_in, offset, scale, gamma) ==
    oklab_to_scrgb(scale_oklab(oklab_in,
        Powf(FDiv(FSub(luma_oklab(oklab_in), offset), scale), gamma)))

apply_levels(c_in, level_min, level_max, gamma) ==
    ApplyLevelsOklab(scrgb_to_oklab(c_in), level_min, FSub(level_max, level_min), gamma)

\* scale_oklab_desat (main.rs:372-390)
ScaleDesatTo(oklab_in, l_out, saturation) ==
    ScaleBy(oklab_in, l_out, Powf(FDiv(l_out, oklab_in.l), FDiv(3 * One, saturation)))

scale_oklab_desat(oklab_in, luma_out, saturation) ==
    IF oklab_in.l = 0 THEN oklab_in
    ELSE ScaleDesatTo(oklab_in, oklab_l_for_luma(luma_out), saturation)

\* tonemap_reinhard_rgb (main.rs:329-337)
tonemap_reinhard_rgb(c_in, options) ==
    VDiv(VMul(c_in, VAdd(VOne, VDiv(c_in, Splat(FMul(options.hdr_max, options.hdr_max))))),
         VAdd(VOne, c_in))

\* tonemap_reinhard_oklab (main.rs:339-364)
\* luma_in * (1.0 + luma_in / white2) / (1.0 + luma_in)
Reinhard(luma_in, white2) ==
    FDiv(FMul(luma_in, FAdd(One, FDiv(luma_in, white2))), FAdd(One, luma_in))

ReinhardOklab(oklab_in, white2, saturation) ==
    oklab_to_scrgb(scale_oklab_desat(oklab_in, Reinhard(luma_oklab(oklab_in), white2),
                                     saturation))

tonemap_reinhard_oklab(c_in, options) ==
    ReinhardOklab(scrgb_to_oklab(c_in), FMul(options.hdr_max, options.hdr_max),
                  options.saturation)

CallToneMap(tone_map, c_in, options) ==
    CASE tone_map = "linear" -> tonemap_linear(c_in, options)
      [] tone_map = "reinhard" -> tonemap_reinhard_oklab(c_in, options)
      [] tone_map = "reinhard-rgb" -> tonemap_reinhard_rgb(c_in, options)

CallColorMap(color_map, c_in) ==
    CASE color_map = "clip" -> color_clip(c_in)
      [] color_map = "darken" -> color_darken_oklab(c_in)
      [] color_map = "desaturate" -> color_desat_oklab(c_in)

\* A plausible slip: the color map ahead of the tone map.
hdr_to_sdr_pixel_color_map_first(rgb_scrgb, options) ==
    CallToneMap(options.tone_map,
        CallColorMap(options.color_map, apply_exposure(rgb_scrgb, options.exposure)), options)

\* hdr_to_sdr_pixel (main.rs:512-519)
hdr_to_sdr_pixel(rgb_scrgb, options) ==
    CallColorMap(options.color_map,
        CallToneMap(options.tone_map, apply_exposure(rgb_scrgb, options.exposure), options))

\* the closure of the output mapping (main.rs:715-719)
OutputPixel(rgb, options, levels_min, levels_max, post_gamma) ==
    clip(CallColorMap(options.color_map, apply_levels(rgb, levels_min, levels_max, post_gamma)))

(***************************************************************************)
(* hdrfix (main.rs:641-727) with the readers (main.rs:227-283) and         *)
(* write_png (main.rs:521-544).  One action is one stage of hdrfix, up to  *)
(* the "?" or the panic that ends it.  A command line argument is drawn    *)
(* when hdrfix reads it (each is read once) and kept in args.  The input   *)
(* image is MaxPixels wide at most and one row high.                       *)
(***************************************************************************)
\* PixelBuffer::map (main.rs:128-132) with each of the three closures of
\* hdrfix: the samples of the iterator
MapGamma(buffer, gamma) ==
    [i \in 1..PixelCount(buffer) |-> apply_gamma(PixelAt(buffer, i).val, gamma)]

MapHdrToSdr(buffer, options) ==
    [i \in 1..PixelCount(buffer) |-> hdr_to_sdr_pixel(PixelAt(buffer, i).val, options)]

MapOutput(buffer, options, levels_min, levels_max, post_gamma) ==
    [i \in 1..PixelCount(buffer) |->
        OutputPixel(PixelAt(buffer, i).val, options, levels_min, levels_max, post_gamma)]

RECURSIVE FillFrom(_, _, _, _)
FillFrom(buffer, samples, i, n) ==
    IF i > n THEN buffer
    ELSE FillFrom(
            [buffer EXCEPT !.data =
                WithChunk(@, buffer.bytes_per_pixel, i,
                    CallWrite(buffer.write_rgb_func,
                              Chunk(buffer.data, buffer.bytes_per_pixel, i),
                              samples[i]).val)],
            samples, i + 1, n)

\* PixelBuffer::fill (main.rs:134-141) as a whole call, for the codecs that
\* do not panic: the buffer after the for_each over the zip
fill(buffer, samples) ==
    FillFrom(buffer, samples, 1, Min(PixelCount(buffer), Cardinality(DOMAIN samples)))

\* par_iter_rgb over a buffer calls a reader that panics (main.rs:144-146)
ReadPanics(buffer) ==
    \E i \in 1..PixelCount(buffer) : PixelAt(buffer, i).panic

\* dest.fill(source.map(..)) calls a codec that panics (main.rs:144-146,
\* 165-167): the reader of source or the writer of dest, on the first item
\* of the zip
PassPanics(dest_, source_) ==
    /\ Min(PixelCount(dest_), PixelCount(source_)) > 0
    /\ \/ PixelAt(source_, 1).panic
       \/ CallWrite(dest_.write_rgb_func, Chunk(dest_.data, dest_.bytes_per_pixel, 1),
                    VZero).panic

\* the collect_into_vec of Histogram::new (main.rs:552-553)
LumaRuns(buffer) ==
    [i \in 1..PixelCount(buffer) |-> [val |-> luma_scrgb(PixelAt(buffer, i).val), cnt |-> 1]]

Arrangements(seq) ==
    {[i \in 1..Len(seq) |-> seq[f[i]]] :
        f \in {g \in [1..Len(seq) -> 1..Len(seq)] : \A i, j \in 1..Len(seq) : g[i] = g[j] => i = j}}

\* Histogram::new (main.rs:551-563) on a buffer.  With a NaN among the
\* values the comparator is no order and the sort may leave any arrangement.
HistogramOutcomes(buffer) ==
    LET lumas == LumaRuns(buffer)
    IN  IF \E i \in 1..Len(lumas) : IsNaN(lumas[i].val)
        THEN {[luma_vals |-> runs] : runs \in Arrangements(lumas)}
        ELSE {HistogramNew(lumas)}

\* apply_exposure (main.rs:506-510) on an f32
apply_exposure_f32(val, stops) == FMul(val, Exp2(stops))

Err(e) == [err |-> e]

\* read_png (main.rs:227-253)
read_png(file) ==
    CASE file.condition = "missing" -> Err("IoError")
      [] file.condition = "corrupt" -> Err("PNGDecodingError")
      [] file.condition = "wrong_format" -> Err("PNGFormatError")
      [] file.condition = "ok" ->
            [err |-> "", buffer |-> [PixelBufferNew(file.width, file.height, HDR8bit)
                                        EXCEPT !.data = file.bytes]]

\* read_jxr (main.rs:255-283)
read_jxr(file) ==
    CASE file.condition = "missing" -> Err("IoError")
      [] file.condition = "corrupt" -> Err("JXRError")
      [] file.condition = "wrong_format" -> Err("UnsupportedPixelFormat")
      [] file.condition = "ok" ->
            [err |-> "", buffer |-> [PixelBufferNew(file.width, file.height, HDRFloat32)
                                        EXCEPT !.data = file.bytes]]

PngPixels == {<<255, 255, 255>>, <<128, 128, 0>>}
JxrPixels == {FloatPixel(One \div 2, One, 2 * One), FloatPixel(0, 0, 0)}

ImageFiles(ext, palette) ==
    {[ext |-> ext, condition |-> "ok", width |-> Len(px), height |-> 1, bytes |-> Concat(px)] :
        px \in UNION {[1..n -> palette] : n \in 1..MaxPixels}}

NoImage(ext, condition) ==
    [ext |-> ext, condition |-> condition, width |-> 0, height |-> 0, bytes |-> <<>>]

InputFiles ==
    ImageFiles("png", PngPixels) \cup ImageFiles("jxr", JxrPixels)
        \cup {NoImage(ext, condition) :
                ext \in {"png", "jxr"}, condition \in {"missing", "corrupt", "wrong_format"}}
        \cup {NoImage("bmp", "ok"), NoImage("", "ok")}

PreGammaArgs == {<<"1", ".", "0">>, <<"0", ".", "5">>, <<"g">>}
PostGammaArgs == {<<"1", ".", "0">>, <<"g">>}
ExposureArgs == {<<"0">>, <<"i", "n", "f">>, <<"e">>}
HdrMaxArgs == {<<"1", "0", "0", "%">>, <<"2", "0", "0", "%">>, <<"8", "0">>, <<"%">>}
SaturationArgs == {<<"1">>, <<"s">>}
ToneMapArgs == {"linear", "reinhard", "reinhard-rgb"}
ColorMapArgs == {"clip", "darken", "desaturate"}
LevelsMinArgs == {<<"0", ".", "0">>, <<"0", "%">>, <<"-">>}
LevelsMaxArgs == {<<"1", ".", "0">>, <<"1", "0", "0", "%">>}

Others == <<varsLevel, varsHist, varsLazy, varsFill, varsGamut>>

Init ==
    /\ inputFile \in InputFiles
    /\ args = <<>>
    /\ pc = "read_input"
    /\ frame = <<>>
    /\ histCalls = [source |-> 0, tone_mapped |-> 0]
    /\ outFile = [state |-> "absent", rows |-> <<>>]
    /\ returned = None
    /\ IdleLevel /\ IdleHist /\ IdleLazy /\ IdleFill /\ IdleGamut

\* return Err(e), by "?"
Fail(e) ==
    pc' = "failed" /\ returned' = Some([status |-> "Err", err |-> e]) /\ UNCHANGED frame

\* a panic unwinds out of hdrfix
Abort ==
    pc' = "panicked" /\ returned' = Some([status |-> "panic", err |-> ""]) /\ UNCHANGED frame

\* the panic of an index out of bounds (main.rs:568) unwinds out of hdrfix
IndexPanic ==
    /\ pc' = "panicked"
    /\ returned' = Some([status |-> "panic", err |-> "index out of bounds"])
    /\ UNCHANGED frame

\* the panic of an unimplemented codec (main.rs:145, 166) unwinds out of hdrfix
CodecPanic ==
    /\ pc' = "panicked"
    /\ returned' = Some([status |-> "panic", err |-> "not yet implemented"])
    /\ UNCHANGED frame

\* main.rs:645-654; extension() unwraps the extension of the path
ReadInput ==
    /\ pc = "read_input"
    /\ IF inputFile.ext = "" THEN Abort
       ELSE LET rd == CASE inputFile.ext = "png" -> read_png(inputFile)
                        [] inputFile.ext = "jxr" -> read_jxr(inputFile)
                        [] OTHER -> Err("InvalidInputFile")
            IN  IF rd.err # "" THEN Fail(rd.err)
                ELSE /\ frame' = [source |-> rd.buffer,
                                  width |-> rd.buffer.width, height |-> rd.buffer.height]
                     /\ pc' = "pre_gamma"
                     /\ UNCHANGED returned
    /\ UNCHANGED <<inputFile, args, histCalls, outFile, Others>>

\* main.rs:656-663
PreGamma ==
    /\ pc = "pre_gamma"
    /\ \E arg \in PreGammaArgs :
          /\ args' = args @@ ("pre-gamma" :> arg)
          /\ LET val == ParseF32(arg)
                 pre_gamma == F32OfLiteral(val.val)
             IN  IF ~val.ok THEN Fail("ParseFloatError")
                 ELSE IF pre_gamma # One
                         /\ PassPanics(PixelBufferNew(frame.width, frame.height, HDRFloat32),
                                       frame.source)
                 THEN CodecPanic
                 ELSE /\ frame' =
                            [frame EXCEPT !.source =
                                IF pre_gamma = One THEN @
                                ELSE fill(PixelBufferNew(frame.width, frame.height, HDRFloat32),
                                          MapGamma(@, pre_gamma))]
                                @@ ("pre_gamma" :> pre_gamma)
                      /\ pc' = "post_gamma"
                      /\ UNCHANGED returned
    /\ UNCHANGED <<inputFile, histCalls, outFile, Others>>

\* main.rs:664
PostGamma ==
    /\ pc = "post_gamma"
    /\ \E arg \in PostGammaArgs :
          /\ args' = args @@ ("post-gamma" :> arg)
          /\ LET val == ParseF32(arg)
             IN  IF ~val.ok THEN Fail("ParseFloatError")
                 ELSE /\ frame' = frame @@ ("post_gamma" :> F32OfLiteral(val.val))
                      /\ pc' = "exposure"
                      /\ UNCHANGED returned
    /\ UNCHANGED <<inputFile, histCalls, outFile, Others>>

\* main.rs:666
Exposure ==
    /\ pc = "exposure"
    /\ \E arg \in ExposureArgs :
          /\ args' = args @@ ("exposure" :> arg)
          /\ LET val == ParseF32(arg)
             IN  IF ~val.ok THEN Fail("ParseFloatError")
                 ELSE /\ frame' = frame @@ ("exposure" :> F32OfLiteral(val.val))
                      /\ pc' = "hdr_max"
                      /\ UNCHANGED returned
    /\ UNCHANGED <<inputFile, histCalls, outFile, Others>>

\* main.rs:668-679
HdrMax ==
    /\ pc = "hdr_max"
    /\ \E arg \in HdrMaxArgs :
          /\ args' = args @@ ("hdr-max" :> arg)
          /\ LET lvl == with_str(arg)
             IN  CASE lvl.tag = "ParseFloatError" ->
                        Fail("ParseFloatError") /\ UNCHANGED histCalls
                   [] lvl.tag = "Scalar" ->
                        /\ frame' = frame @@ ("hdr_max" :>
                              apply_exposure_f32(FDiv(F32OfLiteral(lvl.val), SDR_WHITE * One),
                                                 frame.exposure))
                        /\ pc' = "options"
                        /\ UNCHANGED <<returned, histCalls>>
                   [] lvl.tag = "Percentile" ->
                        /\ histCalls' = [histCalls EXCEPT !.source = @ + 1]
                        /\ IF ReadPanics(frame.source) THEN CodecPanic
                           ELSE
                           \E histogram \in HistogramOutcomes(frame.source) :
                              LET val == HistogramPercentile(histogram, lvl.val)
                              IN  IF val.panic THEN IndexPanic
                                  ELSE /\ frame' = frame @@ ("hdr_max" :> val.val)
                                       /\ pc' = "options"
                                       /\ UNCHANGED returned
    /\ UNCHANGED <<inputFile, outFile, Others>>

\* main.rs:681-699
BuildOptions ==
    /\ pc = "options"
    /\ \E saturation \in SaturationArgs, tone_map \in ToneMapArgs, color_map \in ColorMapArgs,
          min \in LevelsMinArgs, max \in LevelsMaxArgs :
          LET sat == ParseF32(saturation)
              levels_min == with_str(min)
              levels_max == with_str(max)
              maps == ("saturation" :> saturation) @@ ("tone-map" :> tone_map)
                        @@ ("color-map" :> color_map)
          IN  IF ~sat.ok
              THEN args' = args @@ ("saturation" :> saturation) /\ Fail("ParseFloatError")
              ELSE IF levels_min.tag = "ParseFloatError"
              THEN /\ args' = args @@ maps @@ ("levels-min" :> min)
                   /\ Fail("ParseFloatError")
              ELSE IF levels_max.tag = "ParseFloatError"
              THEN /\ args' = args @@ maps @@ ("levels-min" :> min) @@ ("levels-max" :> max)
                   /\ Fail("ParseFloatError")
              ELSE /\ args' = args @@ maps @@ ("levels-min" :> min) @@ ("levels-max" :> max)
                   /\ frame' = frame @@ ("options" :>
                          [exposure |-> frame.exposure,
                           hdr_max |-> frame.hdr_max,
                           saturation |-> F32OfLiteral(sat.val),
                           tone_map |-> tone_map,
                           color_map |-> color_map,
                           levels_min |-> levels_min,
                           levels_max |-> levels_max])
                   /\ pc' = "hdr_to_sdr"
                   /\ UNCHANGED returned
    /\ UNCHANGED <<inputFile, histCalls, outFile, Others>>

\* main.rs:701-704
ToneMap ==
    /\ pc = "hdr_to_sdr"
    /\ IF PassPanics(PixelBufferNew(frame.width, frame.height, HDRFloat32), frame.source)
       THEN CodecPanic
       ELSE /\ frame' = frame @@ ("tone_mapped" :>
                  fill(PixelBufferNew(frame.width, frame.height, HDRFloat32),
                       MapHdrToSdr(frame.source, frame.options)))
            /\ pc' = "levels"
            /\ UNCHANGED returned
    /\ UNCHANGED <<inputFile, args, histCalls, outFile, Others>>

\* the f32 that Lazy::level hands back
LevelValue(lvl, ret) == IF lvl.tag = "Scalar" THEN F32OfLiteral(ret.val) ELSE ret.val

\* main.rs:707-711
Levels ==
    /\ pc = "levels"
    /\ IF "Percentile" \in {frame.options.levels_min.tag, frame.options.levels_max.tag}
          /\ ReadPanics(frame.tone_mapped)
       THEN histCalls' = [histCalls EXCEPT !.tone_mapped = @ + 1] /\ CodecPanic
       ELSE
       \E histogram \in HistogramOutcomes(frame.tone_mapped) :
          LET lazy_histogram == LazyNew
              first == LazyLevel(lazy_histogram, histogram, frame.options.levels_min)
              second == LazyLevel([value |-> first.value, func |-> first.func], histogram,
                                  frame.options.levels_max)
          IN  IF first.ret.panic
              THEN /\ histCalls' = [histCalls EXCEPT !.tone_mapped = @ + first.ran]
                   /\ IndexPanic
              ELSE IF second.ret.panic
              THEN /\ histCalls' = [histCalls EXCEPT !.tone_mapped = @ + first.ran + second.ran]
                   /\ IndexPanic
              ELSE /\ histCalls' = [histCalls EXCEPT !.tone_mapped = @ + first.ran + second.ran]
                   /\ frame' = frame
                        @@ ("lazy_histogram" :> [value |-> second.value, func |-> second.func])
                        @@ ("levels_min" :> LevelValue(frame.options.levels_min, first.ret))
                        @@ ("levels_max" :> LevelValue(frame.options.levels_max, second.ret))
                   /\ pc' = "output_mapping"
                   /\ UNCHANGED returned
    /\ UNCHANGED <<inputFile, args, outFile, Others>>

\* main.rs:713-720
OutputMapping ==
    /\ pc = "output_mapping"
    /\ IF PassPanics(PixelBufferNew(frame.width, frame.height, SDR8bit), frame.tone_mapped)
       THEN CodecPanic
       ELSE /\ frame' = frame @@ ("dest" :>
                  fill(PixelBufferNew(frame.width, frame.height, SDR8bit),
                       MapOutput(frame.tone_mapped, frame.options, frame.levels_min,
                                 frame.levels_max, frame.post_gamma)))
            /\ pc' = "write_png"
            /\ UNCHANGED returned
    /\ UNCHANGED <<inputFile, args, histCalls, outFile, Others>>

\* write_png, File::create (main.rs:528): the file exists from here on
WritePngCreate ==
    /\ pc = "write_png"
    /\ \/ /\ outFile' = [state |-> "created", rows |-> <<>>]
          /\ pc' = "write_header"
          /\ UNCHANGED <<returned, frame>>
       \/ Fail("IoError") /\ UNCHANGED outFile
    /\ UNCHANGED <<inputFile, args, histCalls, Others>>

\* write_png, the encoder set up and write_header (main.rs:530-539)
WritePngHeader ==
    /\ pc = "write_header"
    /\ outFile' = [outFile EXCEPT !.state = "header"]
    /\ pc' = "write_image_rows"
    /\ UNCHANGED <<inputFile, args, frame, histCalls, returned, Others>>

\* write_png, write_image_rows (main.rs:540)
WritePngRows ==
    /\ pc = "write_image_rows"
    /\ outFile' = [state |-> "rows", rows |-> frame.dest.data]
    /\ pc' = "finish"
    /\ UNCHANGED <<inputFile, args, frame, histCalls, returned, Others>>

\* write_png, finish (main.rs:541-543), and hdrfix returns Ok (main.rs:726)
WritePngFinish ==
    /\ pc = "finish"
    /\ outFile' = [outFile EXCEPT !.state = "complete"]
    /\ pc' = "done"
    /\ returned' = Some([status |-> "Ok", err |-> ""])
    /\ UNCHANGED <<inputFile, args, frame, histCalls, Others>>

\* write_png, an I/O error of the encoder after the file was created: "?"
\* returns it, and nothing removes the file
WritePngError ==
    /\ pc \in {"write_header", "write_image_rows", "finish"}
    /\ Fail("IoError")
    /\ UNCHANGED <<inputFile, args, histCalls, outFile, Others>>

Next ==
    \/ ReadInput
    \/ PreGamma
    \/ PostGamma
    \/ Exposure
    \/ HdrMax
    \/ BuildOptions
    \/ ToneMap
    \/ Levels
    \/ OutputMapping
    \/ WritePngCreate
    \/ WritePngHeader
    \/ WritePngRows
    \/ WritePngFinish
    \/ WritePngError

Spec == Init /\ [][Next]_vars

\* C1: when hdrfix has returned Ok the output file is complete and holds the
\* rows of dest; when it has returned an error, or has panicked, there is no
\* file at the output path.
C1_AllOrNothing ==
    returned.some =>
        IF returned.val.status = "Ok"
        THEN outFile.state = "complete" /\ outFile.rows = frame.dest.data
        ELSE outFile.state = "absent"

FloatArgs == {"pre-gamma", "post-gamma", "exposure", "saturation"}
LevelArgs == {"hdr-max", "levels-min", "levels-max"}

\* an argument read so far is malformed, or is not a finite number
BadArgument ==
    \/ \E name \in FloatArgs \cap DOMAIN args :
          ~ParseF32(args[name]).ok \/ ParseF32(args[name]).val.cls # "finite"
    \/ \E name \in LevelArgs \cap DOMAIN args :
          with_str(args[name]).tag = "ParseFloatError" \/ with_str(args[name]).val.cls # "finite"

\* the extension is not png or jxr, or the file does not decode to an image
\* of the supported pixel format
BadInput == inputFile.ext \notin {"png", "jxr"} \/ inputFile.condition # "ok"

AtWritePng == pc \in {"write_png", "write_header", "write_image_rows", "finish", "done"}

\* C2: with an unsupported or malformed input, or with a malformed or
\* non-finite configuration value, hdrfix never reaches write_png (and has
\* returned an error once it has returned).
C2_StageFailureAborts ==
    (pc # "idle" /\ (BadInput \/ BadArgument)) =>
        /\ ~AtWritePng
        /\ outFile.state = "absent"
        /\ returned.some => returned.val.status = "Err"

LevelsResolved == pc # "idle" /\ "levels_max" \in DOMAIN frame

BothScalar ==
    frame.options.levels_min.tag = "Scalar" /\ frame.options.levels_max.tag = "Scalar"

\* what Lazy::level returns for a level on a given histogram
ResolvedOn(histogram, lvl) ==
    IF lvl.tag = "Scalar" THEN F32OfLiteral(lvl.val)
    ELSE HistogramPercentile(histogram, lvl.val).val

\* C4: Histogram::new has run on tone_mapped never before the levels are
\* resolved and never more than once; once they are resolved it has run
\* not at all when both levels are scalars and exactly once otherwise, and
\* both bounds are the values of the one histogram the Lazy holds, which is
\* a histogram of tone_mapped.
C4_LevelsHistogramIffPercentile ==
    pc # "idle" =>
        /\ histCalls.tone_mapped <= 1
        /\ pc \in {"read_input", "pre_gamma", "post_gamma", "exposure", "hdr_max",
                   "options", "hdr_to_sdr", "levels"} => histCalls.tone_mapped = 0
        /\ LevelsResolved =>
              /\ histCalls.tone_mapped = (IF BothScalar THEN 0 ELSE 1)
              /\ frame.lazy_histogram.value.some = ~BothScalar
              /\ frame.levels_min =
                    ResolvedOn(frame.lazy_histogram.value.val, frame.options.levels_min)
              /\ frame.levels_max =
                    ResolvedOn(frame.lazy_histogram.value.val, frame.options.levels_max)
        /\ (pc = "output_mapping" /\ ~BothScalar) =>
              frame.lazy_histogram.value.val \in HistogramOutcomes(frame.tone_mapped)

\* both levels were percentiles of a two-pixel image and came out different
C4_Witness ==
    /\ pc = "done"
    /\ frame.options.levels_min.tag = "Percentile"
    /\ frame.options.levels_max.tag = "Percentile"
    /\ histCalls.tone_mapped = 1
    /\ IsFinite(frame.levels_min) /\ IsFinite(frame.levels_max)
    /\ frame.levels_min # frame.levels_max

AllWhiteInput ==
    /\ inputFile.ext = "png" /\ inputFile.condition = "ok"
    /\ \A j \in 1..Len(inputFile.bytes) : inputFile.bytes[j] = 255

C9Arguments ==
    /\ args["pre-gamma"] = <<"1", ".", "0">>
    /\ args["post-gamma"] = <<"1", ".", "0">>
    /\ args["exposure"] = <<"0">>
    /\ args["tone-map"] = "linear"
    /\ args["color-map"] = "clip"
    /\ args["levels-min"] = <<"0", "%">>
    /\ args["levels-max"] = <<"1", "0", "0", "%">>

\* C9: an all-white HDR8bit image converted with exposure 0, tone-map linear,
\* color-map clip, levels 0% to 100% and both gammas 1.0 comes out with every
\* byte at 255.
C9_AllWhiteStaysWhite ==
    (pc = "done" /\ AllWhiteInput /\ C9Arguments) =>
        \A j \in 1..Len(outFile.rows) : outFile.rows[j] = 255

(***************************************************************************)
(* The order of the stages of hdrfix (main.rs:656-724).                    *)
(***************************************************************************)
\* the buffer the reader handed to hdrfix
Decoded ==
    IF inputFile.ext = "png" THEN read_png(inputFile).buffer ELSE read_jxr(inputFile).buffer

\* the bytes of one pixel of a buffer of the given format that holds rgb
Encoded(format, rgb) ==
    CallWrite(WriteFuncOf(format), Zeros(BytesPerPixel(format)), rgb).val

\* the locals of hdrfix in the order the stages bind them
StageLocals ==
    <<"source", "pre_gamma", "post_gamma", "exposure", "hdr_max", "options",
      "tone_mapped", "levels_min", "levels_max", "dest">>

\* how many of them are bound when control is at a stage
BoundAt(stage) ==
    CASE stage = "pre_gamma" -> 1
      [] stage = "post_gamma" -> 2
      [] stage = "exposure" -> 3
      [] stage = "hdr_max" -> 4
      [] stage = "options" -> 5
      [] stage = "hdr_to_sdr" -> 6
      [] stage = "levels" -> 7
      [] stage = "output_mapping" -> 9
      [] stage \in {"write_png", "write_header", "write_image_rows", "finish", "done"} -> 10

\* source after the pre-gamma stage: the decoded buffer itself for 1.0,
\* else a new float buffer of the gamma-mapped pixels
PreGammaDone ==
    IF frame.pre_gamma = One THEN frame.source = Decoded
    ELSE /\ frame.source.read_rgb_func = "read_scrgb_rgb128float"
         /\ PixelCount(frame.source) = PixelCount(Decoded)
         /\ \A i \in 1..PixelCount(Decoded) :
               PixelBytes(frame.source, i) =
                   Encoded(HDRFloat32, apply_gamma(PixelAt(Decoded, i).val, frame.pre_gamma))

\* tone_mapped: exposure, then the tone map, then the color map, of every
\* pixel of source
ToneMapDone ==
    /\ PixelCount(frame.tone_mapped) = PixelCount(frame.source)
    /\ \A i \in 1..PixelCount(frame.source) :
          PixelBytes(frame.tone_mapped, i) =
              Encoded(HDRFloat32,
                  CallColorMap(frame.options.color_map,
                      CallToneMap(frame.options.tone_map,
                          apply_exposure(PixelAt(frame.source, i).val, frame.options.exposure),
                          frame.options)))

\* both levels are resolved on a histogram of the whole of tone_mapped
LevelsDone ==
    \E histogram \in HistogramOutcomes(frame.tone_mapped) :
        /\ frame.levels_min = ResolvedOn(histogram, frame.options.levels_min)
        /\ frame.levels_max = ResolvedOn(histogram, frame.options.levels_max)

\* dest: the levels with post-gamma, then the color map again, then the
\* 8-bit encoding, of every pixel of tone_mapped
OutputDone ==
    /\ frame.dest.write_rgb_func = "write_srgb_rgb24"
    /\ PixelCount(frame.dest) = PixelCount(frame.tone_mapped)
    /\ \A i \in 1..PixelCount(frame.tone_mapped) :
          PixelBytes(frame.dest, i) =
              Encoded(SDR8bit,
                  clip(CallColorMap(frame.options.color_map,
                          apply_levels(PixelAt(frame.tone_mapped, i).val, frame.levels_min,
                                       frame.levels_max, frame.post_gamma))))

\* C11: the stages run in the order decode, pre-gamma (no new buffer exactly
\* for 1.0), exposure, tone map, color map, levels resolved on the finished
\* tone-mapped buffer, levels with post-gamma, color map again, 8-bit
\* encoding: at every stage exactly the locals of the earlier stages are
\* bound, and each buffer a stage reads holds the whole result of the pass
\* before it.
C11_StagesInOrder ==
    /\ pc \notin {"idle", "read_input", "failed", "panicked"} =>
          \A k \in 1..Len(StageLocals) : (StageLocals[k] \in DOMAIN frame) = (k <= BoundAt(pc))
    /\ pc \in {"failed", "panicked"} =>
          \A k \in 2..Len(StageLocals) :
              StageLocals[k] \in DOMAIN frame => StageLocals[k - 1] \in DOMAIN frame
    /\ pc = "post_gamma" => PreGammaDone
    /\ pc = "levels" => ToneMapDone
    /\ pc = "output_mapping" => LevelsDone
    /\ pc = "write_png" => OutputDone
    /\ pc = "done" => outFile.rows = frame.dest.data

\* a conversion with a pre-gamma pass, a tone map and a gamut search has
\* written an image that is not black
C11_Witness ==
    /\ pc = "done"
    /\ frame.pre_gamma # One
    /\ frame.options.tone_map # "linear"
    /\ frame.options.color_map # "clip"
    /\ \E j \in 1..Len(outFile.rows) : outFile.rows[j] > 0

\* C13: no run of hdrfix calls read_srgb_rgb24 or write_rec2100_rgb24: every
\* buffer read through map or par_iter_rgb (source as decoded and after the
\* pre-gamma pass, tone_mapped) has the reader of HDR8bit or of HDRFloat32,
\* every buffer written through fill (the pre-gamma buffer, tone_mapped,
\* dest) has the writer of HDRFloat32 or of SDR8bit, and no run ends in the
\* panic of a codec.
C13_CodecsNeverPanic ==
    pc # "idle" =>
        /\ returned.some => returned.val.err # "not yet implemented"
        /\ "source" \in DOMAIN frame =>
              /\ frame.source.read_rgb_func \in {"read_rec2100_rgb24", "read_scrgb_rgb128float"}
              /\ ~ReadPanics(frame.source)
        /\ ("pre_gamma" \in DOMAIN frame /\ frame.pre_gamma # One) =>
              frame.source.write_rgb_func = "write_scrgb_rgb128float"
        /\ "tone_mapped" \in DOMAIN frame =>
              /\ frame.tone_mapped.read_rgb_func = "read_scrgb_rgb128float"
              /\ frame.tone_mapped.write_rgb_func = "write_scrgb_rgb128float"
        /\ "dest" \in DOMAIN frame => frame.dest.write_rgb_func = "write_srgb_rgb24"

\* a PNG went through every pass: pre-gamma, the input histogram, the tone
\* map, the levels histogram and the output mapping
C13_Witness ==
    /\ pc = "done"
    /\ inputFile.ext = "png"
    /\ frame.pre_gamma # One
    /\ histCalls.source = 1
    /\ histCalls.tone_mapped = 1

\* the level arguments read so far that Level::with_str took as percentiles
PercentileArgs ==
    {name \in LevelArgs \cap DOMAIN args : with_str(args[name]).tag = "Percentile"}

\* C14: for every percentile that Level::with_str accepts for hdr-max,
\* levels-min or levels-max, the index Histogram::percentile computes on a
\* histogram of the decoded image lies in 0..n-1, and no run of hdrfix ends
\* in the panic of an index out of bounds.
C14_PercentileIndexInRange ==
    pc # "idle" =>
        /\ returned.some => returned.val.err # "index out of bounds"
        /\ "source" \in DOMAIN frame =>
              \A name \in PercentileArgs :
                  TargetIndex(PixelCount(frame.source) - 1, with_str(args[name]).val)
                      \in 0..(PixelCount(frame.source) - 1)

====
